---- MODULE Spec2Model ----
(***************************************************************************)
(* Interactive_Maps: the frame loop of Project2_FlightTime/flight_time.py  *)
(* and the calibration authoring loop of Step1-GetCornerPoints/get_map.py. *)
(*                                                                         *)
(* Images are modelled by what was done to them: a camera frame is its     *)
(* frame number plus the circles drawn on it, the overlay canvas is the    *)
(* sequence of drawing calls applied to the zeroed buffer.  Points are     *)
(* <<x, y>>.  Python's None is the empty sequence / frame number 0.        *)
(* Arithmetic on the homography is exact (integer matrix up to scale).     *)
(***************************************************************************)
EXTENDS Integers, Sequences, FiniteSets, TLC

VARIABLES prog, pc, frameNo, success, img, key, quit, ops, windows,
          polygons, map_points, matrix, hands, warped_point, check,
          imgOverlay, imgOutput,
          imgWarped, points, counter, mapFile, callback, clicked,
          nameA, nameB, selected, looked

vars == <<prog, pc, frameNo, success, img, key, quit, ops, windows,
          polygons, map_points, matrix, hands, warped_point, check,
          imgOverlay, imgOutput,
          imgWarped, points, counter, mapFile, callback, clicked,
          nameA, nameB, selected, looked>>

---------------------------------------------------------------------------
(* Bounds of the model *)

\* frames the capture source delivers before the run is cut off
MaxFrames == 2
\* left-button clicks delivered to the authoring window
MaxClicks == 5
\* canonical size handed to warp_image (1920 x 1080 in the scripts), scaled down
SizeW == 16
SizeH == 12

---------------------------------------------------------------------------
(* Integer helpers *)

Abs(n) == IF n < 0 THEN -n ELSE n

RECURSIVE Gcd(_, _)
Gcd(a, b) == IF b = 0 THEN Abs(a) ELSE Gcd(b, a % Abs(b))

\* int(a / b) of Python on floats: truncation toward zero
TruncDiv(a, b) ==
    LET q == Abs(a) \div Abs(b)
    IN  IF (a < 0) = (b < 0) THEN q ELSE -q

\* matrices are <<row1, row2, row3>>, rows are <<a, b, c>>
Det2(a, b, c, d) == a * d - b * c

Adjugate(m) ==
    << << Det2(m[2][2], m[2][3], m[3][2], m[3][3]),
          -Det2(m[1][2], m[1][3], m[3][2], m[3][3]),
          Det2(m[1][2], m[1][3], m[2][2], m[2][3]) >>,
       << -Det2(m[2][1], m[2][3], m[3][1], m[3][3]),
          Det2(m[1][1], m[1][3], m[3][1], m[3][3]),
          -Det2(m[1][1], m[1][3], m[2][1], m[2][3]) >>,
       << Det2(m[2][1], m[2][2], m[3][1], m[3][2]),
          -Det2(m[1][1], m[1][2], m[3][1], m[3][2]),
          Det2(m[1][1], m[1][2], m[2][1], m[2][2]) >> >>

MatMul(a, b) ==
    [i \in 1..3 |-> [j \in 1..3 |->
        a[i][1] * b[1][j] + a[i][2] * b[2][j] + a[i][3] * b[3][j]]]

MatGcd(m) ==
    Gcd(m[1][1], Gcd(m[1][2], Gcd(m[1][3], Gcd(m[2][1], Gcd(m[2][2],
        Gcd(m[2][3], Gcd(m[3][1], Gcd(m[3][2], m[3][3]))))))))

\* a homography is defined up to scale: divide by the common factor
Normalize(m) ==
    LET g == MatGcd(m)
    IN  IF g = 0 THEN m
        ELSE [i \in 1..3 |-> [j \in 1..3 |-> TruncDiv(m[i][j], g)]]

\* twice the signed area of the triangle p, q, r
Orient(p, q, r) ==
    (q[1] - p[1]) * (r[2] - p[2]) - (r[1] - p[1]) * (q[2] - p[2])

\* the projective frame of four points: columns l*p1, m*p2, t*p3 with
\* l*p1 + m*p2 + t*p3 ~ p4 in homogeneous coordinates
Frame(q) ==
    LET l == Orient(q[4], q[2], q[3])
        m == Orient(q[1], q[4], q[3])
        t == Orient(q[1], q[2], q[4])
        g == Gcd(l, Gcd(m, t))
        l1 == IF g = 0 THEN 0 ELSE TruncDiv(l, g)
        m1 == IF g = 0 THEN 0 ELSE TruncDiv(m, g)
        t1 == IF g = 0 THEN 0 ELSE TruncDiv(t, g)
    IN  << << l1 * q[1][1], m1 * q[2][1], t1 * q[3][1] >>,
           << l1 * q[1][2], m1 * q[2][2], t1 * q[3][2] >>,
           << l1, m1, t1 >> >>

\* cv2.getPerspectiveTransform(src, dst): the projective map sending src[i]
\* to dst[i] for the four correspondences, here as an integer matrix up to
\* scale (cv2 scales it to m[3][3] = 1)
getPerspectiveTransform(src, dst) ==
    Normalize(MatMul(Frame(dst), Adjugate(Frame(src))))

\* the homogeneous image of a point under a matrix
Homogeneous(point, m) ==
    [i \in 1..3 |-> m[i][1] * point[1] + m[i][2] * point[2] + m[i][3]]

---------------------------------------------------------------------------
(* Static data of flight_time.py *)

\* the result of None for an image, a point list or the calibration file
NoneImg == [frame |-> 0, circles |-> <<>>]

flight_time_list ==
    << <<"USA", "India", "14 hours">>,
       <<"USA", "China", "15 hours">>,
       <<"Russia", "India", "6 hours">>,
       <<"Canada", "India", "17 hours">>,
       <<"Saudi Arabia", "USA", "14 hours">> >>

\* region files the program may be started with (countries.p): sequences of
\* (polygon, name) in canonical coordinates
Square == << <<0, 0>>, <<10, 0>>, <<10, 10>>, <<0, 10>> >>
IndiaBox == << <<12, 2>>, <<16, 2>>, <<16, 8>>, <<12, 8>> >>
CanadaBox == << <<6, 6>>, <<14, 6>>, <<14, 12>>, <<6, 12>> >>
ChinaEll == << <<0, 0>>, <<12, 0>>, <<12, 4>>, <<4, 4>>, <<4, 12>>, <<0, 12>> >>
RussiaTri == << <<16, 0>>, <<16, 12>>, <<6, 12>> >>

Region(polygon, name) == [polygon |-> polygon, name |-> name]

RegionFiles ==
    { << Region(Square, "USA"), Region(IndiaBox, "India") >>,
      << Region(Square, "USA"), Region(CanadaBox, "Canada"),
         Region(IndiaBox, "India") >>,
      << Region(ChinaEll, "China"), Region(RussiaTri, "Russia"),
         Region(IndiaBox, "India") >> }

\* calibration files the program may be started with (map.p): four camera
\* points in the order top-left, top-right, bottom-left, bottom-right
MapFiles ==
    { << <<0, 0>>, <<16, 0>>, <<0, 12>>, <<16, 12>> >>,
      << <<2, 1>>, <<14, 1>>, <<0, 11>>, <<16, 11>> >> }

\* index fingertips the hand detector may report (camera pixels)
FingerTips == { <<5, 5>>, <<10, 5>>, <<11, 5>>, <<13, 5>>, <<10, 8>> }

\* what detector.findHands returns, reduced to lmList[8][0:2] of each hand
Detections ==
    {<<>>} \cup {<<p>> : p \in FingerTips}
           \cup {<<p, q>> : p \in FingerTips, q \in FingerTips}

---------------------------------------------------------------------------
(* Region test: cv2.pointPolygonTest(contour, pt, measureDist = False) on   *)
(* integer contours.  +1 inside, 0 on an edge or a vertex, -1 outside.      *)

Prev(cnt, i) == IF i = 1 THEN cnt[Len(cnt)] ELSE cnt[i - 1]

\* the edge (v0, v) is passed over by the crossing count
EdgeSkipped(v0, v, pt) ==
    \/ (v0[2] <= pt[2] /\ v[2] <= pt[2])
    \/ (v0[2] > pt[2] /\ v[2] > pt[2])
    \/ (v0[1] < pt[1] /\ v[1] < pt[1])

EdgeDist(v0, v, pt) ==
    (pt[2] - v0[2]) * (v[1] - v0[1]) - (pt[1] - v0[1]) * (v[2] - v0[2])

\* the edge makes the test return 0
EdgeTouches(v0, v, pt) ==
    IF EdgeSkipped(v0, v, pt)
    THEN /\ pt[2] = v[2]
         /\ \/ pt[1] = v[1]
            \/ /\ pt[2] = v0[2]
               /\ \/ (v0[1] <= pt[1] /\ pt[1] <= v[1])
                  \/ (v[1] <= pt[1] /\ pt[1] <= v0[1])
    ELSE EdgeDist(v0, v, pt) = 0

\* the edge adds one to the crossing counter
EdgeCounts(v0, v, pt) ==
    /\ ~EdgeSkipped(v0, v, pt)
    /\ LET d == EdgeDist(v0, v, pt)
       IN  (IF v[2] < v0[2] THEN -d ELSE d) > 0

pointPolygonTest(cnt, pt) ==
    IF \E i \in 1..Len(cnt) : EdgeTouches(Prev(cnt, i), cnt[i], pt)
    THEN 0
    ELSE IF Cardinality({i \in 1..Len(cnt) :
                            EdgeCounts(Prev(cnt, i), cnt[i], pt)}) % 2 = 0
         THEN -1
         ELSE 1

---------------------------------------------------------------------------
(* Drawing on the overlay canvas *)

Draw(op, text, pts, scale) ==
    [op |-> op, text |-> text, pts |-> pts, scale |-> scale]

\* lines 213-215 and 231-234: outline, fill, label at the first vertex, and
\* in the single-point branch the name again at the headline anchor
Highlight(region, headline) ==
    << Draw("polylines", "", region.polygon, 2),
       Draw("fillPoly", "", region.polygon, 0),
       Draw("putTextRect", region.name, << region.polygon[1] >>, 1) >>
    \o (IF headline
        THEN << Draw("putTextRect", region.name, << <<0, 100>> >>, 8) >>
        ELSE << >>)

\* mutants of Hit: the boundary left out; the sign test dropped
Hit_strict(region, pt) == pointPolygonTest(region.polygon, pt) > 0

Hit_any(region, pt) == pointPolygonTest(region.polygon, pt) >= -1

Hit(region, pt) == pointPolygonTest(region.polygon, pt) >= 0

\* the loop over the regions for one point, from region i on, in load order
RECURSIVE MarkFrom(_, _, _, _, _)
MarkFrom(polys, i, pt, headline, acc) ==
    IF i > Len(polys) THEN acc
    ELSE MarkFrom(polys, i + 1, pt, headline,
            IF Hit(polys[i], pt)
            THEN [canvas |-> acc.canvas \o Highlight(polys[i], headline),
                  check |-> Append(acc.check, polys[i].name)]
            ELSE acc)

\* Python's "x in flight_time" on the three-element list
InList(x, list) == \E i \in 1..Len(list) : list[i] = x

EntrySelected(a, b, flight_time) ==
    InList(a, flight_time) /\ InList(b, flight_time)

\* the two labels drawn for one selected entry
TravelLabels(flight_time) ==
    << Draw("putTextRect", flight_time[2] \o " to " \o flight_time[1],
            << <<0, 100>> >>, 8),
       Draw("putTextRect", flight_time[3], << <<0, 200>> >>, 8) >>

RECURSIVE TravelFrom(_, _, _)
TravelFrom(i, a, b) ==
    IF i > Len(flight_time_list) THEN << >>
    ELSE (IF EntrySelected(a, b, flight_time_list[i])
          THEN TravelLabels(flight_time_list[i]) ELSE << >>)
         \o TravelFrom(i + 1, a, b)

\* the entries the loop of lines 220-224 draws for the names a and b
Selected(a, b) ==
    {i \in 1..Len(flight_time_list) :
        EntrySelected(a, b, flight_time_list[i])}

\* the condition under which the line is drawn and the table consulted
PairFound(chk) == Len(chk) = 2

TwoPoints(polys, wp, canvas) ==
    LET m1 == MarkFrom(polys, 1, wp[1], FALSE, [canvas |-> canvas, check |-> << >>])
        m2 == MarkFrom(polys, 1, wp[2], FALSE, m1)
    IN  IF PairFound(m2.check)
        THEN [canvas |-> m2.canvas
                         \o << Draw("line", "", << wp[1], wp[2] >>, 10) >>
                         \o TravelFrom(1, m2.check[1], m2.check[2]),
              check |-> m2.check]
        ELSE m2

OnePoint(polys, wp, canvas) ==
    [canvas |-> MarkFrom(polys, 1, wp[1], TRUE,
                         [canvas |-> canvas, check |-> << >>]).canvas,
     check |-> << >>]

\* warped_point is <<p, q>> for the list of two points and <<p>> for a tuple
create_overlay_image(polys, wp, canvas) ==
    IF Len(wp) = 2 THEN TwoPoints(polys, wp, canvas)
    ELSE OnePoint(polys, wp, canvas)

---------------------------------------------------------------------------
(* Warps *)

\* destination corners of the forward warp
pts2(w, h) == << <<0, 0>>, <<w, 0>>, <<0, h>>, <<w, h>> >>

\* source corners of the back-projection: the overlay has shape (h, w)
destination_points(w, h) ==
    << <<0, 0>>, <<w - 1, 0>>, <<0, h - 1>>, <<w - 1, h - 1>> >>

\* the matrix warp_image computes
warp_matrix(pts) == getPerspectiveTransform(pts, pts2(SizeW, SizeH))

\* warp_single_point: perspective division, int() of both coordinates.  A
\* zero third component makes int() raise; the caller treats <<>> as that
warp_single_point(point, m) ==
    LET h == Homogeneous(point, m)
    IN  IF h[3] = 0 THEN << >>
        ELSE << TruncDiv(h[1], h[3]), TruncDiv(h[2], h[3]) >>

\* the value get_finger_location returns: None, a tuple, or a list of two
finger_location(hs, m) ==
    [i \in 1..Len(hs) |-> warp_single_point(hs[i], m)]

\* M of inverse_warp_image
inverse_matrix(mp) ==
    getPerspectiveTransform(destination_points(SizeW, SizeH), mp)

\* result of inverse_warp_image: the frame with the warped overlay added
inverse_warp_image(image, overlay, mp) ==
    [base |-> image, overlay |-> overlay, via |-> inverse_matrix(mp)]

\* img.copy()
Copy(image) == [base |-> image, overlay |-> << >>, via |-> << >>]

\* mutant of zeros: the canvas of the previous frame is drawn on again
zeros_stale == imgOverlay

\* np.zeros((h, w, 3)): the blank canvas
zeros == << >>

---------------------------------------------------------------------------
(* State *)

Keys == {"none", "q", "x"}

\* names the lookup is exercised with: every string of the table and one more
Names ==
    {"USA", "India", "China", "Russia", "Canada", "Saudi Arabia",
     "14 hours", "15 hours", "6 hours", "17 hours", "Brazil"}

\* clicks the authoring window may receive (camera pixels)
ClickPoints == { <<2, 1>>, <<14, 1>>, <<0, 11>>, <<16, 11>> }
Events == {"LBUTTONDOWN", "MOUSEMOVE"}

Frame0(n) == [frame |-> n, circles |-> << >>]

LoopIdle ==
    /\ pc = "read" /\ frameNo = 0 /\ success = FALSE /\ img = NoneImg
    /\ key = "none" /\ quit = FALSE /\ ops = << >>
    /\ windows = [output |-> Copy(NoneImg), original |-> NoneImg]
    /\ matrix = << >> /\ hands = << >> /\ warped_point = << >>
    /\ check = << >> /\ imgOverlay = << >> /\ imgOutput = Copy(NoneImg)
    /\ imgWarped = NoneImg
    /\ points = [i \in 1..4 |-> <<0, 0>>] /\ counter = 0
    /\ mapFile = << >> /\ callback = FALSE /\ clicked = << >>

LookupIdle ==
    /\ nameA = "" /\ nameB = "" /\ selected = {} /\ looked = FALSE

\* flight_time.py after its module-level loads (lines 45-78), or get_map.py
\* after lines 12-16
Init ==
    /\ prog \in {"flight_time", "get_map"}
    /\ LoopIdle
    /\ LookupIdle
    /\ IF prog = "flight_time"
       THEN polygons \in RegionFiles /\ map_points \in MapFiles
       ELSE polygons = << >> /\ map_points = << >>

loopVars == <<pc, frameNo, success, img, key, quit, ops, windows>>
mainVars == <<polygons, map_points, matrix, hands, warped_point, check,
              imgOverlay, imgOutput, imgWarped>>
toolVars == <<points, counter, mapFile, callback, clicked>>
lookupVars == <<nameA, nameB, selected, looked>>

---------------------------------------------------------------------------
(* flight_time.py: the frame loop, lines 239-262 *)

\* success, img = cap.read()
M_Read ==
    /\ prog = "flight_time" /\ pc = "read" /\ frameNo < MaxFrames
    /\ \E ok \in BOOLEAN :
          /\ success' = ok
          /\ img' = IF ok THEN Frame0(frameNo + 1) ELSE NoneImg
    /\ frameNo' = frameNo + 1
    /\ ops' = << >>
    /\ pc' = "warp"
    /\ UNCHANGED <<prog, key, quit, windows, mainVars, toolVars, lookupVars>>

\* imgWarped, matrix = warp_image(img, map_points); imgOutput = img.copy()
\* cv2.warpPerspective raises on None, and nothing catches it
M_Warp ==
    /\ prog = "flight_time" /\ pc = "warp"
    /\ ops' = Append(ops, "warp")
    /\ IF img = NoneImg
       THEN /\ pc' = "crashed"
            /\ UNCHANGED <<matrix, imgWarped, imgOutput>>
       ELSE /\ matrix' = warp_matrix(map_points)
            /\ imgWarped' = Frame0(img.frame)
            /\ imgOutput' = Copy(img)
            /\ pc' = "detect"
    /\ UNCHANGED <<prog, frameNo, success, img, key, quit, windows, polygons,
                   map_points, hands, warped_point, check, imgOverlay,
                   toolVars, lookupVars>>

\* warped_point = get_finger_location(img, imgWarped), lines 168-190: the
\* detector's answer is the input; circles go on imgWarped only
M_Detect ==
    /\ prog = "flight_time" /\ pc = "detect"
    /\ \E hs \in Detections :
          LET wp == finger_location(hs, matrix)
          IN  /\ hands' = hs
              /\ IF \E i \in 1..Len(wp) : wp[i] = << >>
                 THEN /\ pc' = "crashed"
                      /\ UNCHANGED <<warped_point, imgWarped>>
                 ELSE /\ warped_point' = wp
                      /\ imgWarped' = [imgWarped EXCEPT !.circles = wp]
                      /\ pc' = "zero"
    /\ ops' = Append(ops, "detect")
    /\ UNCHANGED <<prog, frameNo, success, img, key, quit, windows, polygons,
                   map_points, matrix, check, imgOverlay, imgOutput,
                   toolVars, lookupVars>>

\* imgOverlay = np.zeros((h, w, 3), dtype=np.uint8)
M_Zero ==
    /\ prog = "flight_time" /\ pc = "zero"
    /\ imgOverlay' = zeros
    /\ pc' = "overlay"
    /\ UNCHANGED <<prog, frameNo, success, img, key, quit, ops, windows,
                   polygons, map_points, matrix, hands, warped_point, check,
                   imgOutput, imgWarped, toolVars, lookupVars>>

\* if warped_point: create_overlay_image(...); inverse_warp_image(...)
M_Overlay ==
    /\ prog = "flight_time" /\ pc = "overlay"
    /\ IF warped_point # << >>
       THEN LET r == create_overlay_image(polygons, warped_point, imgOverlay)
            IN  /\ imgOverlay' = r.canvas
                /\ check' = r.check
                /\ imgOutput' = inverse_warp_image(img, r.canvas, map_points)
                /\ ops' = Append(ops, "draw")
       ELSE UNCHANGED <<imgOverlay, check, imgOutput, ops>>
    /\ pc' = "show"
    /\ UNCHANGED <<prog, frameNo, success, img, key, quit, windows, polygons,
                   map_points, matrix, hands, warped_point, imgWarped,
                   toolVars, lookupVars>>

\* cv2.imshow("Output Image", imgOutput)
M_Show ==
    /\ prog = "flight_time" /\ pc = "show"
    /\ windows' = [windows EXCEPT !.output = imgOutput]
    /\ ops' = Append(ops, "display")
    /\ pc' = "waitkey"
    /\ UNCHANGED <<prog, frameNo, success, img, key, quit, mainVars,
                   toolVars, lookupVars>>

\* key = cv2.waitKey(1): the key is stored and the loop goes round
M_WaitKey ==
    /\ prog = "flight_time" /\ pc = "waitkey"
    /\ \E k \in Keys :
          /\ key' = k
          /\ quit' = (quit \/ k = "q")
    /\ pc' = "read"
    /\ UNCHANGED <<prog, frameNo, success, img, ops, windows, mainVars,
                   toolVars, lookupVars>>

---------------------------------------------------------------------------
(* get_map.py: the authoring loop, lines 57-87, and the mouse callback *)

\* mutant of StorePoint: the index wraps round instead of raising
StorePoint_wrap(pts, cnt, x, y) == [pts EXCEPT ![(cnt % 4) + 1] = <<x, y>>]

\* points[counter] = x, y: numpy raises IndexError for index 4 of a 4-row
\* array, before anything is stored; cv2 prints an exception raised in a
\* callback and carries on
StorePoint(pts, cnt, x, y) ==
    IF cnt < 4 THEN [pts EXCEPT ![cnt + 1] = <<x, y>>] ELSE pts

\* counter += 1, not reached when the store raised
NextCounter(cnt) == IF cnt < 4 THEN cnt + 1 ELSE cnt

\* mousePoints(event, x, y, flags, params), dispatched from cv2.waitKey
mousePoints ==
    /\ prog = "get_map" /\ pc = "waitkey" /\ callback
    /\ Len(clicked) < MaxClicks
    /\ \E event \in Events, p \in ClickPoints :
          IF event = "LBUTTONDOWN"
          THEN /\ points' = StorePoint(points, counter, p[1], p[2])
               /\ counter' = NextCounter(counter)
               /\ clicked' = Append(clicked, p)
          ELSE UNCHANGED <<points, counter, clicked>>
    /\ UNCHANGED <<prog, loopVars, mainVars, mapFile, callback, lookupVars>>

\* success, img = cap.read()
A_Read ==
    /\ prog = "get_map" /\ pc = "read" /\ frameNo < MaxFrames
    /\ \E ok \in BOOLEAN :
          /\ success' = ok
          /\ img' = IF ok THEN Frame0(frameNo + 1) ELSE NoneImg
    /\ frameNo' = frameNo + 1
    /\ ops' = << >>
    /\ pc' = "save"
    /\ UNCHANGED <<prog, key, quit, windows, mainVars, toolVars, lookupVars>>

\* if counter == 4: pickle.dump(points), warp_image(img, points), imshow
A_Save ==
    /\ prog = "get_map" /\ pc = "save"
    /\ IF counter = 4
       THEN /\ mapFile' = points
            /\ IF img = NoneImg
               THEN /\ ops' = ops \o << "persist", "warp" >>
                    /\ pc' = "crashed"
                    /\ UNCHANGED <<matrix, imgOutput, windows>>
               ELSE /\ matrix' = warp_matrix(points)
                    /\ imgOutput' = [base |-> img, overlay |-> << >>,
                                     via |-> warp_matrix(points)]
                    /\ windows' = [windows EXCEPT !.output = imgOutput']
                    /\ ops' = ops \o << "persist", "warp", "display" >>
                    /\ pc' = "circles"
       ELSE /\ pc' = "circles"
            /\ UNCHANGED <<mapFile, matrix, imgOutput, windows, ops>>
    /\ UNCHANGED <<prog, frameNo, success, img, key, quit, polygons,
                   map_points, hands, warped_point, check, imgOverlay,
                   imgWarped, points, counter, callback, clicked, lookupVars>>

\* for x in range(0, 4): cv2.circle(img, points[x], ...): raises on None
A_Circles ==
    /\ prog = "get_map" /\ pc = "circles"
    /\ ops' = Append(ops, "draw")
    /\ IF img = NoneImg
       THEN pc' = "crashed" /\ UNCHANGED img
       ELSE pc' = "check" /\ img' = [img EXCEPT !.circles = points]
    /\ UNCHANGED <<prog, frameNo, success, key, quit, windows, mainVars,
                   toolVars, lookupVars>>

\* if not success: print; break
A_Check ==
    /\ prog = "get_map" /\ pc = "check"
    /\ pc' = IF ~success THEN "done" ELSE "show"
    /\ UNCHANGED <<prog, frameNo, success, img, key, quit, ops, windows,
                   mainVars, toolVars, lookupVars>>

\* cv2.imshow("Original Image", img); cv2.setMouseCallback(...)
A_Show ==
    /\ prog = "get_map" /\ pc = "show"
    /\ windows' = [windows EXCEPT !.original = img]
    /\ callback' = TRUE
    /\ ops' = Append(ops, "display")
    /\ pc' = "waitkey"
    /\ UNCHANGED <<prog, frameNo, success, img, key, quit, mainVars,
                   points, counter, mapFile, clicked, lookupVars>>

\* if cv2.waitKey(1) & 0xFF == ord('q'): break
A_WaitKey ==
    /\ prog = "get_map" /\ pc = "waitkey"
    /\ \E k \in Keys :
          /\ key' = k
          /\ quit' = (quit \/ k = "q")
          /\ pc' = IF k = "q" THEN "done" ELSE "read"
    /\ UNCHANGED <<prog, frameNo, success, img, ops, windows, mainVars,
                   toolVars, lookupVars>>

Next ==
    \/ M_Read \/ M_Warp \/ M_Detect \/ M_Zero \/ M_Overlay \/ M_Show
    \/ M_WaitKey
    \/ mousePoints \/ A_Read \/ A_Save \/ A_Circles \/ A_Check \/ A_Show
    \/ A_WaitKey

Spec == Init /\ [][Next]_vars

---------------------------------------------------------------------------
(* The travel table consulted on its own *)

InitLookup ==
    /\ prog = "lookup"
    /\ LoopIdle
    /\ polygons = << >> /\ map_points = << >>
    /\ nameA \in Names /\ nameB \in Names
    /\ selected = {} /\ looked = FALSE

\* the loop of lines 220-224 for check = [nameA, nameB]
Lookup ==
    /\ prog = "lookup" /\ ~looked
    /\ selected' = Selected(nameA, nameB)
    /\ looked' = TRUE
    /\ UNCHANGED <<prog, loopVars, mainVars, toolVars, nameA, nameB>>

NextLookup == Lookup

SpecLookup == InitLookup /\ [][NextLookup]_vars

---------------------------------------------------------------------------
(* Reference notions the properties are stated with *)

\* a decomposition of each region polygon into convex pieces
ConvexParts(polygon) ==
    IF polygon = ChinaEll
    THEN { << <<0, 0>>, <<12, 0>>, <<12, 4>>, <<0, 4>> >>,
           << <<0, 4>>, <<4, 4>>, <<4, 12>>, <<0, 12>> >> }
    ELSE { polygon }

\* p is in the closed convex polygon: on one side of every edge, or on it
InConvex(part, p) ==
    \/ \A i \in 1..Len(part) : Orient(Prev(part, i), part[i], p) >= 0
    \/ \A i \in 1..Len(part) : Orient(Prev(part, i), part[i], p) <= 0

\* p lies inside the polygon or on its boundary
Contains(polygon, p) == \E part \in ConvexParts(polygon) : InConvex(part, p)

\* names of the regions containing p, in load order
RECURSIVE NamesAt(_, _, _)
NamesAt(polys, i, p) ==
    IF i > Len(polys) THEN << >>
    ELSE (IF Contains(polys[i].polygon, p) THEN << polys[i].name >> ELSE << >>)
         \o NamesAt(polys, i + 1, p)

RECURSIVE PolygonsAt(_, _, _)
PolygonsAt(polys, i, p) ==
    IF i > Len(polys) THEN << >>
    ELSE (IF Contains(polys[i].polygon, p) THEN << polys[i].polygon >> ELSE << >>)
         \o PolygonsAt(polys, i + 1, p)

IsFill(d) == d.op = "fillPoly"
IsHeadline(d) == d.op = "putTextRect" /\ d.pts = << <<0, 100>> >>

\* the polygons filled on a canvas, in drawing order
RECURSIVE Filled(_)
Filled(canvas) ==
    IF canvas = << >> THEN << >>
    ELSE (IF IsFill(Head(canvas)) THEN << Head(canvas).pts >> ELSE << >>)
         \o Filled(Tail(canvas))

RECURSIVE Headlines(_)
Headlines(canvas) ==
    IF canvas = << >> THEN << >>
    ELSE (IF IsHeadline(Head(canvas)) THEN << Head(canvas).text >> ELSE << >>)
         \o Headlines(Tail(canvas))

LineDrawn(canvas) == \E i \in 1..Len(canvas) : canvas[i].op = "line"

DurationDrawn(canvas, label) ==
    \E i \in 1..Len(canvas) :
        /\ canvas[i].op = "putTextRect"
        /\ canvas[i].text = label
        /\ canvas[i].pts = << <<0, 200>> >>

Rendered == prog = "flight_time" /\ pc \in {"show", "waitkey"}

IsScaledIdentity(m) ==
    /\ m[1][1] # 0 /\ m[2][2] = m[1][1] /\ m[3][3] = m[1][1]
    /\ \A i \in 1..3, j \in 1..3 : i # j => m[i][j] = 0

---------------------------------------------------------------------------
(* Properties *)

\* C1: in the two-point case the connecting line is drawn (and the travel
\* table consulted) only if each of the two points matched a region and the
\* two names looked up are the first match of the first point and the first
\* match of the second point, and differ.
C1_LineOnlyForOneRegionPerPoint ==
    (Rendered /\ Len(warped_point) = 2 /\ LineDrawn(imgOverlay)) =>
        LET n1 == NamesAt(polygons, 1, warped_point[1])
            n2 == NamesAt(polygons, 1, warped_point[2])
        IN  /\ n1 # << >> /\ n2 # << >>
            /\ check[1] = n1[1] /\ check[2] = n2[1]
            /\ n1[1] # n2[1]

\* C2: whenever the two canonical points lie in two different regions that
\* the travel table pairs, both regions are filled, the line is drawn and
\* the duration label of the entry is rendered, whatever the region file.
C2_PairedRegionsGetLineAndLabel ==
    (Rendered /\ Len(warped_point) = 2) =>
        \A i \in 1..Len(polygons), j \in 1..Len(polygons),
           e \in 1..Len(flight_time_list) :
            ( /\ Contains(polygons[i].polygon, warped_point[1])
              /\ Contains(polygons[j].polygon, warped_point[2])
              /\ polygons[i].name # polygons[j].name
              /\ {polygons[i].name, polygons[j].name}
                    = {flight_time_list[e][1], flight_time_list[e][2]} )
            => /\ InList(polygons[i].polygon, Filled(imgOverlay))
               /\ InList(polygons[j].polygon, Filled(imgOverlay))
               /\ LineDrawn(imgOverlay)
               /\ DurationDrawn(imgOverlay, flight_time_list[e][3])

\* C3: the lookup selects the same entries for (A, B) and (B, A), selects an
\* entry only when both names are among its origin and destination, and on
\* the shipped table gives entry 1 for USA/India and nothing for USA/Canada.
C3_LookupByOriginAndDestination ==
    looked =>
        /\ selected = Selected(nameB, nameA)
        /\ \A e \in selected :
              {nameA, nameB} \subseteq
                  {flight_time_list[e][1], flight_time_list[e][2]}
        /\ ({nameA, nameB} = {"USA", "India"} => selected = {1})
        /\ ({nameA, nameB} = {"USA", "Canada"} => selected = {})

\* C4: after a failed acquisition no warp, detection, drawing, persistence
\* or display operation is invoked in that iteration, in either loop.
C4_NothingDoneToMissingFrame ==
    (frameNo > 0 /\ ~success) => ops = << >>

\* C5: once the key poll has returned the quit key, no further frame is
\* captured or processed, in either loop.
C5_QuitStopsLoop ==
    [][quit => (frameNo' = frameNo /\ ops' = ops)]_vars

\* the authoring state against the history of left clicks
C6_State ==
    /\ counter \in 0..4
    /\ counter = (IF Len(clicked) < 4 THEN Len(clicked) ELSE 4)
    /\ \A i \in 1..counter : points[i] = clicked[i]
    /\ mapFile # << >> =>
          /\ counter = 4
          /\ mapFile = SubSeq(clicked, 1, 4)

\* C6: the click counter stays in 0..4, map.p is written only with four
\* clicks accepted and then holds the first four clicks in order, and a
\* click after the fourth changes neither the points nor the written record.
C6_FourClicksThenFrozen ==
    /\ []C6_State
    /\ [][counter = 4 =>
            /\ points' = points /\ counter' = 4
            /\ (mapFile # << >> => mapFile' = mapFile)]_vars

C6_Witness ==
    /\ prog = "get_map" /\ Len(clicked) = 5 /\ mapFile # << >>
    /\ clicked[5] # clicked[1]

\* C7: for a single canonical point the regions highlighted are exactly the
\* loaded regions that contain the point or have it on their boundary, in
\* load order, each with its headline; on the square 0..10 the points (5,5)
\* and (10,5) hit and (11,5) does not.
C7_SinglePointHighlightsAllContaining ==
    /\ (Rendered /\ Len(warped_point) = 1) =>
          /\ Filled(imgOverlay) = PolygonsAt(polygons, 1, warped_point[1])
          /\ Headlines(imgOverlay) = NamesAt(polygons, 1, warped_point[1])
    /\ Hit(Region(Square, "USA"), <<5, 5>>)
    /\ Hit(Region(Square, "USA"), <<10, 5>>)
    /\ ~Hit(Region(Square, "USA"), <<11, 5>>)

C7_Witness ==
    /\ Rendered /\ warped_point = << <<10, 8>> >>
    /\ Filled(imgOverlay) = << Square, CanadaBox >>

\* C8: the corners warp_image sends the calibration quad to are the corners
\* inverse_warp_image sends back to it, so the back-projection composed
\* with the forward warp is the identity.
C8_BackProjectionInvertsWarp ==
    (Rendered /\ warped_point # << >>) =>
        /\ destination_points(SizeW, SizeH) = pts2(SizeW, SizeH)
        /\ IsScaledIdentity(MatMul(matrix, imgOutput.via))

NoRegionHit ==
    \A i \in 1..Len(warped_point), r \in 1..Len(polygons) :
        ~Contains(polygons[r].polygon, warped_point[i])

\* C9: with no hand, or with hands that hit no region, the canvas is blank
\* and the displayed frame has no overlay content; with no hand the
\* displayed frame is the copy of the raw frame.
C9_NoDetectionNoOverlay ==
    Rendered =>
        /\ (hands = << >> \/ NoRegionHit) =>
              /\ imgOverlay = << >>
              /\ imgOutput.overlay = << >>
              /\ imgOutput.base = Frame0(frameNo)
              /\ (pc = "waitkey" => windows.output = imgOutput)
        /\ hands = << >> => imgOutput = Copy(Frame0(frameNo))

C9_Witness ==
    /\ Rendered /\ pc = "waitkey" /\ Len(hands) = 2 /\ NoRegionHit
    /\ windows.output.overlay = << >> /\ frameNo = 2

\* the output a frame gets from its own detections and the static data
OwnOutput ==
    IF hands = << >> THEN Copy(img)
    ELSE inverse_warp_image(img,
            create_overlay_image(polygons,
                finger_location(hands, warp_matrix(map_points)),
                << >>).canvas,
            map_points)

\* the canvas and the output against the frame's own rendering
C10_State ==
    /\ (prog = "flight_time" /\ pc = "overlay") => imgOverlay = << >>
    /\ Rendered =>
          /\ warped_point = finger_location(hands, warp_matrix(map_points))
          /\ imgOutput = OwnOutput
          /\ imgOverlay = OwnOutput.overlay
          /\ (pc = "waitkey" => windows.output = OwnOutput)

\* C10: rendering starts from an all-zero canvas, the output of a frame is a
\* function of that frame's hands and the static data alone, and the frame
\* loop never changes the region list or the calibration quad.
C10_NoStateAcrossFrames ==
    /\ []C10_State
    /\ [][polygons' = polygons /\ map_points' = map_points]_vars

C10_Witness ==
    /\ Rendered /\ pc = "show" /\ frameNo = 2
    /\ windows.output.overlay # << >>
    /\ hands # << >>
    /\ imgOverlay # windows.output.overlay

====
